---------------------------- MODULE Spec2Model ----------------------------
(***************************************************************************)
(* DataViewer: the fish-stock dashboard.  Raw CSV rows are normalised by   *)
(* processData, filtered by the year/region/category selection of          *)
(* useDashboardData and aggregated by year, by region and by category and  *)
(* stock.  The repository holds two implementations of useDashboardData:   *)
(* one built on useMemo, with its own inline aggregation, and one built on *)
(* useEffect and the aggregators of utils/dataProcessor.  Both are         *)
(* modelled side by side over the same rows and the same selection.        *)
(*                                                                         *)
(* JavaScript numbers are records [nan, n]: NaN is [nan |-> TRUE, n |-> 0].*)
(* A year is held as an integer; a value is held in tenths (fixed point),  *)
(* so that "1.5" parses to 15.  A nullable state is Null or Just(v).       *)
(***************************************************************************)
EXTENDS Integers, Sequences, FiniteSets, TLC

(***************************************************************************)
(* Bounds of the model.                                                    *)
(***************************************************************************)
\* the longest row sequence the fetch returns
MaxRows == 3
\* the engine's order for an inconsistent comparator is one of 0..MaxSeed
MaxSeed == 1

(***************************************************************************)
(* JavaScript values.                                                      *)
(***************************************************************************)
NaN == [nan |-> TRUE, n |-> 0]
Num(n) == [nan |-> FALSE, n |-> n]

Null == [isNull |-> TRUE]
Just(v) == [isNull |-> FALSE, val |-> v]

\* a + b on numbers
Add(a, b) == IF a.nan \/ b.nan THEN NaN ELSE Num(a.n + b.n)
\* a - b on numbers
Sub(a, b) == IF a.nan \/ b.nan THEN NaN ELSE Num(a.n - b.n)
\* a === b on numbers: NaN equals nothing, itself included
StrictEqNum(a, b) == ~a.nan /\ ~b.nan /\ a.n = b.n
\* ToBoolean of a number: 0 and NaN are falsy
TruthyNum(a) == ~a.nan /\ a.n # 0
\* ToBoolean of a string: "" is falsy
TruthyStr(s) == s # ""

(***************************************************************************)
(* parseInt and parseFloat over a string given as a sequence of            *)
(* characters.  A missing field is undefined, which both functions first   *)
(* turn into the string "undefined".                                       *)
(***************************************************************************)
Undefined == <<"u", "n", "d", "e", "f", "i", "n", "e", "d">>

DecDigits == <<"0", "1", "2", "3", "4", "5", "6", "7", "8", "9">>
HexDigits == DecDigits \o <<"a", "b", "c", "d", "e", "f">>
IsDigit(c, digits) == \E i \in 1..Len(digits) : digits[i] = c
DigitVal(c, digits) == (CHOOSE i \in 1..Len(digits) : digits[i] = c) - 1
IsWhite(c) == c \in {" ", "\t"}

RECURSIVE SkipWhite(_)
SkipWhite(s) ==
  IF s # <<>> /\ IsWhite(Head(s)) THEN SkipWhite(Tail(s)) ELSE s

\* the longest prefix of s made of digits
RECURSIVE DigitPrefix(_, _)
DigitPrefix(s, digits) ==
  IF s # <<>> /\ IsDigit(Head(s), digits)
  THEN <<Head(s)>> \o DigitPrefix(Tail(s), digits)
  ELSE <<>>

\* the value of a digit string in the radix Len(digits)
RECURSIVE DigitsValue(_, _, _)
DigitsValue(s, digits, acc) ==
  IF s = <<>> THEN acc
  ELSE DigitsValue(Tail(s), digits, acc * Len(digits) + DigitVal(Head(s), digits))

HasSign(s) == s # <<>> /\ Head(s) \in {"-", "+"}
SignOf(s) == IF s # <<>> /\ Head(s) = "-" THEN -1 ELSE 1
DropSign(s) == IF HasSign(s) THEN Tail(s) ELSE s
\* s without its first k characters
Drop(s, k) == SubSeq(s, k + 1, Len(s))

\* parseInt(s) with no radix: optional white space and sign, a 0x prefix
\* selects radix 16, then the longest digit prefix; no digit gives NaN.
parseInt(s) ==
  LET t == SkipWhite(s)
      u == DropSign(t)
      hex == Len(u) >= 2 /\ u[1] = "0" /\ u[2] \in {"x", "X"}
      digits == IF hex THEN HexDigits ELSE DecDigits
      body == DigitPrefix(IF hex THEN Drop(u, 2) ELSE u, digits)
  IN  IF body = <<>> THEN NaN
      ELSE Num(SignOf(t) * DigitsValue(body, digits, 0))

\* parseFloat(s): optional white space and sign, digits, optionally a point
\* and more digits; no digit at all gives NaN.  The result is in tenths:
\* the model keeps one decimal place.
parseFloat(s) ==
  LET t == SkipWhite(s)
      u == DropSign(t)
      ip == DigitPrefix(u, DecDigits)
      r == Drop(u, Len(ip))
      fp == IF r # <<>> /\ Head(r) = "." THEN DigitPrefix(Tail(r), DecDigits) ELSE <<>>
      tenth == IF fp = <<>> THEN 0 ELSE DigitVal(fp[1], DecDigits)
  IN  IF ip = <<>> /\ fp = <<>> THEN NaN
      ELSE Num(SignOf(t) * (DigitsValue(ip, DecDigits, 0) * 10 + tenth))


(***************************************************************************)
(* State.                                                                  *)
(***************************************************************************)
VARIABLES
  jsonData,          \* Dashboard: the raw rows the fetch delivered
  loading,           \* Dashboard: the fetch has not ended yet
  error,             \* Dashboard: Null, or the message of the failed fetch
  data,              \* useEffect hook: the records of its last processData
  pendingEffect,     \* useEffect hook: jsonData changed, the effect has not run
  selectedYear,      \* both hooks: Null or Just(number)
  selectedRegion,    \* both hooks: Null or Just(string)
  selectedCategory,  \* both hooks: Null or Just(string)
  engineSeed,        \* the JavaScript engine's order under an inconsistent comparator
  view,              \* the component that is mounted: "dashboard", "highlight" or "table"
  hoveredItem,       \* highlighting Dashboard: Null or Just([type, value])
  lastEvent,         \* highlighting Dashboard: the handler that ran last
  tableData,         \* Home: data, the rows the fetch delivered
  tableFilteredData, \* Home: filteredData, the rows handed to DataTable
  searchTerm,        \* Home: the text of the search box
  activeFilters,     \* Home: column -> text of its filter box, for the columns that have a key
  tableLoading,      \* Home: loading
  tableError,        \* Home: error
  filterPending,     \* Home: a dependency of the filter effect changed, it has not run
  gridData,          \* DataTable: the data prop
  gridColumns,       \* DataTable: the columns prop
  sortConfig,        \* DataTable: Null or Just([key, direction])
  currentPage,       \* DataTable: currentPage
  visibleColumns,    \* DataTable: visibleColumns
  columnsPending     \* DataTable: the effect on initialVisibleColumns has not run

hookVars == <<jsonData, loading, error, data, pendingEffect,
              selectedYear, selectedRegion, selectedCategory, engineSeed>>

highlightVars == <<hoveredItem, lastEvent>>

tableVars == <<tableData, tableFilteredData, searchTerm, activeFilters,
               tableLoading, tableError, filterPending>>

\* What the Dashboard of components/Dashboard.tsx has no access to.
gridVars == <<gridData, gridColumns, sortConfig, currentPage, visibleColumns,
              columnsPending>>

otherViews == <<view, gridVars, highlightVars, tableVars>>

vars == <<hookVars, otherViews>>

(***************************************************************************)
(* Raw rows: what csvtojson delivers, every field a string.  year and      *)
(* value are character sequences, so that parsing is modelled.             *)
(***************************************************************************)
Row(y, s, r, c, v) ==
  [year |-> y, stock |-> s, region |-> r, category |-> c, value |-> v, unit |-> "t"]

\* Five rows that between them hold: two records of one bucket, one of them
\* with a non-numeric value; a non-numeric year; the year 0 and the empty
\* region and category; a stock of each of two categories; equal values under
\* different keys; a year with white space and a trailing letter; a decimal.
RowPool ==
  { Row(<<"7">>, "cod", "N", "D", <<"1">>),
    Row(<<" ", "8", "a">>, "had", "S", "D", <<"1", ".", "5">>),
    Row(<<"7">>, "cod", "N", "D", <<"x">>),
    Row(<<"x">>, "her", "S", "P", <<"2">>),
    Row(<<"0">>, "had", "", "", <<"1", ".", "5">>) }

RECURSIVE SeqsUpTo(_, _)
SeqsUpTo(S, n) ==
  IF n = 0 THEN {<<>>}
  ELSE LET shorter == SeqsUpTo(S, n - 1)
       IN  shorter \cup {Append(q, x) : q \in shorter, x \in S}

RowSeqs == SeqsUpTo(RowPool, MaxRows)

(***************************************************************************)
(* utils/dataProcessor: processData.                                       *)
(***************************************************************************)
\* processData that leaves out the rows whose year is not a number
processDataDropsInvalid(rows) ==
  SelectSeq([i \in 1..Len(rows) |->
               [year     |-> parseInt(rows[i].year),
                stock    |-> rows[i].stock,
                region   |-> rows[i].region,
                category |-> rows[i].category,
                value    |-> parseFloat(rows[i].value),
                unit     |-> rows[i].unit]],
            LAMBDA item : ~item.year.nan)

processData(rows) ==
  [i \in 1..Len(rows) |->
     [year     |-> parseInt(rows[i].year),
      stock    |-> rows[i].stock,
      region   |-> rows[i].region,
      category |-> rows[i].category,
      value    |-> parseFloat(rows[i].value),
      unit     |-> rows[i].unit]]

(***************************************************************************)
(* A JavaScript Map: the entries [k, v] in insertion order.  Keys are      *)
(* compared by SameValueZero, under which NaN equals NaN: that is equality *)
(* of the model's values.                                                  *)
(***************************************************************************)
MapHas(m, k) == \E i \in 1..Len(m) : m[i].k = k
MapIndex(m, k) == CHOOSE i \in 1..Len(m) : m[i].k = k
MapSet(m, k, v) ==
  IF MapHas(m, k) THEN [m EXCEPT ![MapIndex(m, k)].v = v]
  ELSE Append(m, [k |-> k, v |-> v])

\* m.get(k) || 0: an absent key gives 0, and so does a stored 0 or NaN
GetOrZero(m, k) ==
  IF MapHas(m, k) /\ TruthyNum(m[MapIndex(m, k)].v) THEN m[MapIndex(m, k)].v
  ELSE Num(0)

\* SumInto with the running total dropped: m.set(k, v)
SumIntoOverwrite(m, k, v) == MapSet(m, k, v)

\* const current = m.get(k) || 0; m.set(k, current + v)
SumInto(m, k, v) == MapSet(m, k, Add(GetOrZero(m, k), v))

(***************************************************************************)
(* Array.prototype.sort.  A comparator result of NaN is read as +0.  With  *)
(* a consistent comparator the result is the stable sort.  With an         *)
(* inconsistent one (some comparison is NaN) the order is                  *)
(* implementation-defined: the engine yields some permutation, the one     *)
(* engineSeed selects.                                                     *)
(***************************************************************************)
Consistent(M) == \A i, j \in 1..Len(M) : ~M[i][j].nan

\* Insert that puts x before the elements it compares equal to as well
RECURSIVE InsertBeforeEqual(_, _, _)
InsertBeforeEqual(sorted, x, M) ==
  IF sorted = <<>> THEN <<x>>
  ELSE IF M[Head(sorted)][x].n >= 0 THEN <<x>> \o sorted
  ELSE <<Head(sorted)>> \o InsertBeforeEqual(Tail(sorted), x, M)

\* x goes before the first element that compares greater than it
RECURSIVE Insert(_, _, _)
Insert(sorted, x, M) ==
  IF sorted = <<>> THEN <<x>>
  ELSE IF M[Head(sorted)][x].n > 0 THEN <<x>> \o sorted
  ELSE <<Head(sorted)>> \o Insert(Tail(sorted), x, M)

\* the indices 1..n in stable sorted order
RECURSIVE StableSort(_, _)
StableSort(n, M) ==
  IF n = 0 THEN <<>> ELSE Insert(StableSort(n - 1, M), n, M)

RECURSIVE Permute(_, _)
Permute(arr, seed) ==
  IF arr = <<>> THEN <<>>
  ELSE LET i == (seed % Len(arr)) + 1
       IN  <<arr[i]>> \o
           Permute(SubSeq(arr, 1, i - 1) \o SubSeq(arr, i + 1, Len(arr)),
                   seed \div Len(arr))

\* arr.sort(comparator), M being the comparator's results over arr: M[i][j]
\* is comparator(arr[i], arr[j])
sort(arr, M) ==
  LET order == IF Consistent(M) THEN StableSort(Len(arr), M)
               ELSE Permute([i \in 1..Len(arr) |-> i], engineSeed)
  IN  [i \in 1..Len(arr) |-> arr[order[i]]]

\* ByYearAsc with the operands exchanged: (a, b) => b.year - a.year
ByYearDesc(arr) ==
  [i \in 1..Len(arr) |-> [j \in 1..Len(arr) |-> Sub(arr[j].year, arr[i].year)]]
\* ByValueDesc with the operands exchanged: (a, b) => a.value - b.value
ByValueAsc(arr) ==
  [i \in 1..Len(arr) |-> [j \in 1..Len(arr) |-> Sub(arr[i].value, arr[j].value)]]

\* (a, b) => a.year - b.year
ByYearAsc(arr) ==
  [i \in 1..Len(arr) |-> [j \in 1..Len(arr) |-> Sub(arr[i].year, arr[j].year)]]
\* (a, b) => b.value - a.value
ByValueDesc(arr) ==
  [i \in 1..Len(arr) |-> [j \in 1..Len(arr) |-> Sub(arr[j].value, arr[i].value)]]

\* arr.sort((a, b) => a.year - b.year)
sortByYear(arr) == sort(arr, ByYearAsc(arr))
\* arr.sort((a, b) => b.value - a.value)
sortByValue(arr) == sort(arr, ByValueDesc(arr))

MapGet(m, k) == m[MapIndex(m, k)].v
Front(q) == SubSeq(q, 1, Len(q) - 1)
Last(q) == q[Len(q)]

(***************************************************************************)
(* utils/dataProcessor: the aggregators.                                   *)
(***************************************************************************)
\* YearTotals with a falsy year keyed as 0: yearMap.get(item.year || 0)
RECURSIVE YearTotalsFalsyAsZero(_)
YearTotalsFalsyAsZero(d) ==
  IF d = <<>> THEN <<>>
  ELSE SumInto(YearTotalsFalsyAsZero(Front(d)),
               IF TruthyNum(Last(d).year) THEN Last(d).year ELSE Num(0),
               Last(d).value)

\* data.forEach(item => yearMap.set(item.year, (yearMap.get(item.year) || 0) + item.value))
RECURSIVE YearTotals(_)
YearTotals(d) ==
  IF d = <<>> THEN <<>>
  ELSE SumInto(YearTotals(Front(d)), Last(d).year, Last(d).value)

RECURSIVE RegionTotals(_)
RegionTotals(d) ==
  IF d = <<>> THEN <<>>
  ELSE SumInto(RegionTotals(Front(d)), Last(d).region, Last(d).value)

YearEntries(m) == [i \in 1..Len(m) |-> [year |-> m[i].k, value |-> m[i].v]]
RegionEntries(m) == [i \in 1..Len(m) |-> [region |-> m[i].k, value |-> m[i].v]]
StockEntries(m) == [i \in 1..Len(m) |-> [name |-> m[i].k, value |-> m[i].v]]

aggregateByYear(d) == sortByYear(YearEntries(YearTotals(d)))

aggregateByRegion(d) == sortByValue(RegionEntries(RegionTotals(d)))

\* categoryMap: category -> (stock -> total)
RECURSIVE CategoryStocks(_)
CategoryStocks(d) ==
  IF d = <<>> THEN <<>>
  ELSE LET m == CategoryStocks(Front(d))
           item == Last(d)
           m1 == IF ~MapHas(m, item.category) THEN MapSet(m, item.category, <<>>) ELSE m
           stockMap == MapGet(m1, item.category)
       IN  MapSet(m1, item.category, SumInto(stockMap, item.stock, item.value))

\* Array.from(stockMap.values()).reduce((sum, val) => sum + val, 0)
RECURSIVE SumValues(_)
SumValues(m) ==
  IF m = <<>> THEN Num(0) ELSE Add(SumValues(Front(m)), Last(m).v)

createHierarchicalData(d) ==
  LET m == CategoryStocks(d)
  IN  sortByValue([i \in 1..Len(m) |->
                     [name     |-> m[i].k,
                      value    |-> SumValues(m[i].v),
                      children |-> sortByValue(StockEntries(m[i].v))]])

(***************************************************************************)
(* hooks/useDashboardData, the useMemo implementation.                     *)
(***************************************************************************)
memoProcessedData == processData(jsonData)

\* memoFilter with the year test applied whether or not a year is selected
memoFilterUnguarded(d) ==
  LET r1 == SelectSeq(d, LAMBDA item :
                        ~selectedYear.isNull /\ StrictEqNum(item.year, selectedYear.val))
      r2 == IF ~selectedRegion.isNull /\ TruthyStr(selectedRegion.val)
            THEN SelectSeq(r1, LAMBDA item : item.region = selectedRegion.val)
            ELSE r1
  IN  IF ~selectedCategory.isNull /\ TruthyStr(selectedCategory.val)
      THEN SelectSeq(r2, LAMBDA item : item.category = selectedCategory.val)
      ELSE r2

memoFilter(d) ==
  LET r0 == d
      r1 == IF ~selectedYear.isNull /\ TruthyNum(selectedYear.val)
            THEN SelectSeq(r0, LAMBDA item : StrictEqNum(item.year, selectedYear.val))
            ELSE r0
      r2 == IF ~selectedRegion.isNull /\ TruthyStr(selectedRegion.val)
            THEN SelectSeq(r1, LAMBDA item : item.region = selectedRegion.val)
            ELSE r1
  IN  IF ~selectedCategory.isNull /\ TruthyStr(selectedCategory.val)
      THEN SelectSeq(r2, LAMBDA item : item.category = selectedCategory.val)
      ELSE r2

memoFilteredData == memoFilter(memoProcessedData)

memoYearlyData == sortByYear(YearEntries(YearTotals(memoFilteredData)))

\* The regional aggregate left in the order of the Map
memoRegionalDataUnsorted == RegionEntries(RegionTotals(memoFilteredData))

memoRegionalData == sortByValue(RegionEntries(RegionTotals(memoFilteredData)))

\* categoryMap: category -> { value, stocks }
RECURSIVE CategoryTotals(_)
CategoryTotals(d) ==
  IF d = <<>> THEN <<>>
  ELSE LET m == CategoryTotals(Front(d))
           item == Last(d)
           category == IF MapHas(m, item.category) THEN MapGet(m, item.category)
                       ELSE [value |-> Num(0), stocks |-> <<>>]
       IN  MapSet(m, item.category,
                  [value  |-> Add(category.value, item.value),
                   stocks |-> SumInto(category.stocks, item.stock, item.value)])

memoHierarchicalData ==
  LET m == CategoryTotals(memoFilteredData)
  IN  [i \in 1..Len(m) |->
         [name     |-> m[i].k,
          value    |-> m[i].v.value,
          children |-> sortByValue(StockEntries(m[i].v.stocks))]]

(***************************************************************************)
(* hooks/useDashboardData, the useEffect implementation.                   *)
(***************************************************************************)
effFilter(d) ==
  SelectSeq(d, LAMBDA item :
    /\ ~(~selectedYear.isNull /\ TruthyNum(selectedYear.val)
           /\ ~StrictEqNum(item.year, selectedYear.val))
    /\ ~(~selectedRegion.isNull /\ TruthyStr(selectedRegion.val)
           /\ item.region # selectedRegion.val)
    /\ ~(~selectedCategory.isNull /\ TruthyStr(selectedCategory.val)
           /\ item.category # selectedCategory.val))

effFilteredData == effFilter(data)

effYearlyData == aggregateByYear(effFilteredData)
effRegionalData == aggregateByRegion(effFilteredData)
effHierarchicalData == createHierarchicalData(effFilteredData)

(***************************************************************************)
(* Operations.                                                             *)
(***************************************************************************)
\* useState initial values of the Dashboard and of useDashboardData
HookInit ==
  /\ jsonData = <<>>
  /\ loading = TRUE
  /\ error = Null
  /\ data = <<>>
  /\ pendingEffect = FALSE
  /\ selectedYear = Null
  /\ selectedRegion = Null
  /\ selectedCategory = Null
  /\ engineSeed \in 0..MaxSeed

\* useState<HoveredItem>(null)
HighlightInit ==
  /\ hoveredItem = Null
  /\ lastEvent = "none"

\* No DataTable is mounted
GridIdle ==
  /\ gridData = <<>>
  /\ gridColumns = <<>>
  /\ sortConfig = Null
  /\ currentPage = 1
  /\ visibleColumns = <<>>
  /\ columnsPending = FALSE

\* useState initial values of Home
TableInit ==
  /\ tableData = <<>>
  /\ tableFilteredData = <<>>
  /\ searchTerm = <<>>
  /\ activeFilters = <<>>
  /\ tableLoading = TRUE
  /\ tableError = Null
  /\ filterPending = TRUE

Init ==
  /\ view = "dashboard"
  /\ HookInit
  /\ HighlightInit
  /\ TableInit
  /\ GridIdle

\* Dashboard.fetchData, response ok: setJsonData(result.data); setLoading(false)
FetchResolve ==
  /\ view = "dashboard"
  /\ loading
  /\ \E rows \in RowSeqs : jsonData' = rows
  /\ loading' = FALSE
  /\ pendingEffect' = TRUE
  /\ UNCHANGED <<error, data, selectedYear, selectedRegion, selectedCategory, engineSeed>>
  /\ UNCHANGED otherViews

\* Dashboard.fetchData, response not ok or a throw: setError(...); setLoading(false)
FetchFail ==
  /\ view = "dashboard"
  /\ loading
  /\ \E msg \in {"Failed to fetch CSV data", "An error occurred"} : error' = Just(msg)
  /\ loading' = FALSE
  /\ UNCHANGED <<jsonData, data, pendingEffect,
                 selectedYear, selectedRegion, selectedCategory, engineSeed>>
  /\ UNCHANGED otherViews

\* useEffect(() => setData(processData(jsonData)), [jsonData])
ProcessEffect ==
  /\ pendingEffect
  /\ data' = processData(jsonData)
  /\ pendingEffect' = FALSE
  /\ UNCHANGED <<jsonData, loading, error,
                 selectedYear, selectedRegion, selectedCategory, engineSeed>>
  /\ UNCHANGED otherViews

\* The dashboard body is rendered once loading is over and no error is shown.
\* React runs a pending effect before it handles the next event, so no click
\* is handled between the arrival of the rows and ProcessEffect.
Shown == ~loading /\ error.isNull /\ ~pendingEffect

\* A year handler that also drops the region, as a drill-down that starts over would.
handleYearSelectClearsRegion(year) ==
  /\ selectedYear' = Just(year)
  /\ selectedRegion' = Null
  /\ UNCHANGED <<jsonData, loading, error, data, pendingEffect,
                 selectedCategory, engineSeed>>

handleYearSelect(year) ==
  /\ selectedYear' = Just(year)
  /\ UNCHANGED <<jsonData, loading, error, data, pendingEffect,
                 selectedRegion, selectedCategory, engineSeed>>

handleRegionSelect(region) ==
  /\ selectedRegion' = Just(region)
  /\ UNCHANGED <<jsonData, loading, error, data, pendingEffect,
                 selectedYear, selectedCategory, engineSeed>>

handleCategorySelect(category) ==
  /\ selectedCategory' = Just(category)
  /\ UNCHANGED <<jsonData, loading, error, data, pendingEffect,
                 selectedYear, selectedRegion, engineSeed>>

\* A reset that forgets the region.
resetFiltersKeepsRegion ==
  /\ selectedYear' = Null
  /\ selectedCategory' = Null
  /\ UNCHANGED <<jsonData, loading, error, data, pendingEffect, selectedRegion, engineSeed>>

resetFilters ==
  /\ selectedYear' = Null
  /\ selectedRegion' = Null
  /\ selectedCategory' = Null
  /\ UNCHANGED <<jsonData, loading, error, data, pendingEffect, engineSeed>>

YearKeys(entries) == {entries[i].year : i \in 1..Len(entries)}
RegionKeys(entries) == {entries[i].region : i \in 1..Len(entries)}
NameKeys(entries) == {entries[i].name : i \in 1..Len(entries)}

\* A line chart that offers the years of the whole record set.
ClickYearAnyYear ==
  /\ Shown
  /\ \E y \in YearKeys(aggregateByYear(memoProcessedData)) : handleYearSelect(y)
  /\ UNCHANGED otherViews

\* lineChartOptions.onClick: handleYearSelect(yearlyData[index].year)
ClickYear ==
  /\ Shown
  /\ \E y \in YearKeys(memoYearlyData) \cup YearKeys(effYearlyData) : handleYearSelect(y)
  /\ UNCHANGED otherViews

\* Region buttons built from the whole record set.
ClickRegionAnyRegion ==
  /\ Shown
  /\ \E r \in RegionKeys(aggregateByRegion(memoProcessedData)) : handleRegionSelect(r)
  /\ UNCHANGED otherViews

\* region button onClick: handleRegionSelect(region)
ClickRegion ==
  /\ Shown
  /\ \E r \in RegionKeys(memoRegionalData) \cup RegionKeys(effRegionalData) : handleRegionSelect(r)
  /\ UNCHANGED otherViews

\* category button onClick: handleCategorySelect(name)
ClickCategory ==
  /\ Shown
  /\ \E c \in NameKeys(memoHierarchicalData) \cup NameKeys(effHierarchicalData) : handleCategorySelect(c)
  /\ UNCHANGED otherViews

\* Reset Filters button
ClickReset == Shown /\ resetFilters /\ UNCHANGED otherViews

Next ==
  \/ FetchResolve
  \/ FetchFail
  \/ ProcessEffect
  \/ ClickYear
  \/ ClickRegion
  \/ ClickCategory
  \/ ClickReset

Spec == Init /\ [][Next]_vars


(***************************************************************************)
(* Vocabulary of the properties.                                           *)
(***************************************************************************)
\* the sum of the value fields of a sequence, as JavaScript adds them up
RECURSIVE Total(_)
Total(q) == IF q = <<>> THEN Num(0) ELSE Add(Total(Front(q)), Last(q).value)

\* the children of all the nodes of a hierarchical aggregate
RECURSIVE Leaves(_)
Leaves(h) == IF h = <<>> THEN <<>> ELSE Leaves(Front(h)) \o Last(h).children

AllNumeric(d) == \A i \in 1..Len(d) : ~d[i].value.nan
Member(x, q) == \E i \in 1..Len(q) : q[i] = x
\* a < b on numbers: false when either is NaN
Lt(a, b) == ~a.nan /\ ~b.nan /\ a.n < b.n
\* no entry is followed, next to it or further on, by an entry of greater value
NonIncreasing(q) ==
  \A i, j \in 1..Len(q) : i < j => ~Lt(q[i].value, q[j].value)
OfCategory(d, c) == SelectSeq(d, LAMBDA r : r.category = c)

(***************************************************************************)
(* C1.  The selection filter predicate: a record is in filteredData if and *)
(* only if (the year is unset or the record's year equals the selected     *)
(* year) and (the region is unset or the record's region equals it) and    *)
(* (the category is unset or the record's category equals it), unset       *)
(* meaning null; the selected year 0 or NaN and the selected region or     *)
(* category "" included.                                                   *)
(***************************************************************************)
Passes(item) ==
  /\ selectedYear.isNull \/ StrictEqNum(item.year, selectedYear.val)
  /\ selectedRegion.isNull \/ item.region = selectedRegion.val
  /\ selectedCategory.isNull \/ item.category = selectedCategory.val

C1_FilterPredicate ==
  /\ \A i \in 1..Len(memoProcessedData) :
       Member(memoProcessedData[i], memoFilteredData) <=> Passes(memoProcessedData[i])
  /\ \A i \in 1..Len(data) :
       Member(data[i], effFilteredData) <=> Passes(data[i])

(***************************************************************************)
(* C2.  NaN poisoning: a yearly, regional or (category, stock) bucket into *)
(* which at least one record with a NaN value falls has the sum NaN,       *)
(* wherever in the sequence that record stands.                            *)
(***************************************************************************)
Poisoned(entries, d, Same(_, _)) ==
  \A i \in 1..Len(entries) :
    (\E j \in 1..Len(d) : Same(entries[i], d[j]) /\ d[j].value.nan)
      => entries[i].value.nan

AllPoisoned(d, yearly, regional, hier) ==
  /\ Poisoned(yearly, d, LAMBDA e, r : e.year = r.year)
  /\ Poisoned(regional, d, LAMBDA e, r : e.region = r.region)
  /\ \A i \in 1..Len(hier) :
       Poisoned(hier[i].children, OfCategory(d, hier[i].name),
                LAMBDA e, r : e.name = r.stock)

C2_NaNPoisoning ==
  /\ AllPoisoned(effFilteredData, effYearlyData, effRegionalData, effHierarchicalData)
  /\ AllPoisoned(memoFilteredData, memoYearlyData, memoRegionalData, memoHierarchicalData)

(***************************************************************************)
(* C3.  Sum invariant: when every record's value is a number, the values   *)
(* of the yearly entries add up to the sum of the records' values, and so  *)
(* do the values of the regional entries and the values of the leaves of   *)
(* the hierarchical aggregate.                                             *)
(***************************************************************************)
SumInvariant(d, yearly, regional, hier) ==
  AllNumeric(d) =>
    /\ Total(yearly) = Total(d)
    /\ Total(regional) = Total(d)
    /\ Total(Leaves(hier)) = Total(d)

C3_SumInvariant ==
  /\ SumInvariant(effFilteredData, effYearlyData, effRegionalData, effHierarchicalData)
  /\ SumInvariant(memoFilteredData, memoYearlyData, memoRegionalData, memoHierarchicalData)

\* three numeric records, two of which share each bucket
C3_Witness ==
  /\ Len(effFilteredData) = 3
  /\ AllNumeric(effFilteredData)
  /\ effFilteredData = memoFilteredData
  /\ Len(effYearlyData) = 2
  /\ Len(effRegionalData) = 2
  /\ Len(Leaves(effHierarchicalData)) = 2
  /\ Len(Leaves(memoHierarchicalData)) = 2

(***************************************************************************)
(* C4.  Partition invariant: when no record's year is NaN, every record    *)
(* falls in exactly one yearly entry, one regional entry and one child of  *)
(* one category node, every entry holds a record, and an entry's value is  *)
(* the sum of the values of exactly the records that share its key.        *)
(***************************************************************************)
KeysWellFormed(d) == \A i \in 1..Len(d) : ~d[i].year.nan

Partitions(entries, d, Same(_, _)) ==
  /\ \A j \in 1..Len(d) :
       Cardinality({i \in 1..Len(entries) : Same(entries[i], d[j])}) = 1
  /\ \A i \in 1..Len(entries) :
       /\ \E j \in 1..Len(d) : Same(entries[i], d[j])
       /\ entries[i].value = Total(SelectSeq(d, LAMBDA r : Same(entries[i], r)))

PartitionInvariant(d, yearly, regional, hier) ==
  KeysWellFormed(d) =>
    /\ Partitions(yearly, d, LAMBDA e, r : e.year = r.year)
    /\ Partitions(regional, d, LAMBDA e, r : e.region = r.region)
    /\ \A j \in 1..Len(d) :
         Cardinality({i \in 1..Len(hier) : hier[i].name = d[j].category}) = 1
    /\ \A i \in 1..Len(hier) :
         Partitions(hier[i].children, OfCategory(d, hier[i].name),
                    LAMBDA e, r : e.name = r.stock)

C4_PartitionInvariant ==
  /\ PartitionInvariant(effFilteredData, effYearlyData, effRegionalData, effHierarchicalData)
  /\ PartitionInvariant(memoFilteredData, memoYearlyData, memoRegionalData, memoHierarchicalData)

(***************************************************************************)
(* C5.  Hierarchy ordering: in the hierarchical aggregate of               *)
(* createHierarchicalData and of both hooks the category nodes are in      *)
(* non-increasing order of value, and so are the children of every node.   *)
(* The claim says so of every record set; it is stated here of the record  *)
(* sets whose values are all numbers, for which every comparison the sort  *)
(* makes is decided.                                                       *)
(***************************************************************************)
HierarchyOrdered(h) ==
  /\ NonIncreasing(h)
  /\ \A i \in 1..Len(h) : NonIncreasing(h[i].children)

C5_HierarchyOrdering ==
  /\ AllNumeric(effFilteredData) => HierarchyOrdered(effHierarchicalData)
  /\ AllNumeric(memoFilteredData) => HierarchyOrdered(memoHierarchicalData)


(***************************************************************************)
(* C6.  Yearly ordering: the entries of the yearly aggregate are strictly  *)
(* ascending by year, for any record set.                                  *)
(***************************************************************************)
StrictlyAscending(yearly) ==
  \A i \in 1..(Len(yearly) - 1) : Lt(yearly[i].year, yearly[i + 1].year)

C6_YearlyOrdering ==
  /\ StrictlyAscending(effYearlyData)
  /\ StrictlyAscending(memoYearlyData)

\* C6 as amended: no two entries of the yearly aggregate share a year, and
\* when no record's year is NaN the entries are strictly ascending by year.
DistinctYears(yearly) ==
  \A i, j \in 1..Len(yearly) : yearly[i].year = yearly[j].year => i = j

C6_YearlyOrderingValidYears ==
  /\ DistinctYears(effYearlyData)
  /\ DistinctYears(memoYearlyData)
  /\ KeysWellFormed(effFilteredData) => StrictlyAscending(effYearlyData)
  /\ KeysWellFormed(memoFilteredData) => StrictlyAscending(memoYearlyData)

\* three valid years met out of order, so that the sort has moved entries
C6_Witness ==
  /\ KeysWellFormed(effFilteredData)
  /\ effFilteredData = memoFilteredData
  /\ Len(effYearlyData) = 3
  /\ effYearlyData # YearEntries(YearTotals(effFilteredData))
  /\ memoYearlyData = effYearlyData

(***************************************************************************)
(* C7.  Regional ordering: the regional aggregate has one entry per        *)
(* distinct region and its entries are in non-increasing order of value,   *)
(* for any record set.                                                     *)
(***************************************************************************)
EntryPerKey(entries, d, Same(_, _)) ==
  /\ \A j \in 1..Len(d) :
       Cardinality({i \in 1..Len(entries) : Same(entries[i], d[j])}) = 1
  /\ \A i \in 1..Len(entries) : \E j \in 1..Len(d) : Same(entries[i], d[j])

EntryPerRegion(regional, d) ==
  EntryPerKey(regional, d, LAMBDA e, r : e.region = r.region)

C7_RegionalOrdering ==
  /\ EntryPerRegion(effRegionalData, effFilteredData)
  /\ EntryPerRegion(memoRegionalData, memoFilteredData)
  /\ NonIncreasing(effRegionalData)
  /\ NonIncreasing(memoRegionalData)

\* C7 as amended: the regional aggregate has one entry per distinct region,
\* and when no entry's value is NaN its entries are in non-increasing order
\* of value.
NoNaNValue(entries) == \A i \in 1..Len(entries) : ~entries[i].value.nan

C7_RegionalOrderingNumericSums ==
  LET effRegional == effRegionalData
      memoRegional == memoRegionalData
  IN  /\ EntryPerRegion(effRegional, effFilteredData)
      /\ EntryPerRegion(memoRegional, memoFilteredData)
      /\ NoNaNValue(effRegional) => NonIncreasing(effRegional)
      /\ NoNaNValue(memoRegional) => NonIncreasing(memoRegional)

\* three regions with numeric sums met out of order
C7_Witness ==
  /\ effFilteredData = memoFilteredData
  /\ Len(effRegionalData) = 3
  /\ NoNaNValue(effRegionalData)
  /\ effRegionalData # RegionEntries(RegionTotals(effFilteredData))
  /\ memoRegionalData = effRegionalData

(***************************************************************************)
(* C8.  A record whose year is NaN is skipped when bucketing by year: the  *)
(* yearly aggregate has no entry whose year is NaN, and such a record adds *)
(* to no valid year's bucket.                                              *)
(***************************************************************************)
ValidYears(d) == SelectSeq(d, LAMBDA r : ~r.year.nan)
NaNYears(d) == SelectSeq(d, LAMBDA r : r.year.nan)
Range(q) == {q[i] : i \in 1..Len(q)}

\* the entries of the valid years are those of the valid-year records alone
ValidBucketsUntouched(yearly, d) ==
  Range(ValidYears(yearly)) = Range(YearEntries(YearTotals(ValidYears(d))))

C8_NaNYearSkipped ==
  /\ NaNYears(effYearlyData) = <<>>
  /\ NaNYears(memoYearlyData) = <<>>
  /\ ValidBucketsUntouched(effYearlyData, effFilteredData)
  /\ ValidBucketsUntouched(memoYearlyData, memoFilteredData)

\* C8 as amended: a record whose year is NaN adds to no valid year's bucket;
\* the records whose year is NaN are gathered in one entry of their own,
\* whose year is NaN, present exactly when the record set holds such a record.
NaNYearOwnBucket(yearly, d) ==
  /\ ValidBucketsUntouched(yearly, d)
  /\ NaNYears(yearly) = YearEntries(YearTotals(NaNYears(d)))
  /\ Len(NaNYears(yearly)) = IF NaNYears(d) = <<>> THEN 0 ELSE 1

C8_NaNYearOwnBucket ==
  /\ NaNYearOwnBucket(effYearlyData, effFilteredData)
  /\ NaNYearOwnBucket(memoYearlyData, memoFilteredData)

\* two records with a NaN year beside a record of a valid year
C8_Witness ==
  /\ effFilteredData = memoFilteredData
  /\ Len(NaNYears(effFilteredData)) = 2
  /\ Len(ValidYears(effFilteredData)) = 1
  /\ Len(effYearlyData) = 2
  /\ Len(memoYearlyData) = 2

(***************************************************************************)
(* C9.  A record whose year is NaN fails the year filter: once             *)
(* handleYearSelect has set the selected year, to whatever value, no       *)
(* record whose year is NaN is in filteredData.                            *)
(***************************************************************************)
C9_NaNYearFailsFilter ==
  ~selectedYear.isNull =>
    /\ NaNYears(memoFilteredData) = <<>>
    /\ NaNYears(effFilteredData) = <<>>

(***************************************************************************)
(* C10.  Hierarchy node value: the value of every category node is the sum *)
(* of the values of all the records of that category, and is the sum of    *)
(* the values of the node's children, for every record sequence, in        *)
(* createHierarchicalData and in the hook's hierarchicalData.              *)
(***************************************************************************)
NodeValues(hier, d) ==
  \A i \in 1..Len(hier) :
    /\ hier[i].value = Total(OfCategory(d, hier[i].name))
    /\ hier[i].value = Total(hier[i].children)

C10_NodeValue ==
  /\ NodeValues(effHierarchicalData, effFilteredData)
  /\ NodeValues(memoHierarchicalData, memoFilteredData)


(***************************************************************************)
(* Selection mutators.                                                     *)
(***************************************************************************)
\* Each handler writes the value it is given into its own field and leaves the
\* other two fields as they were.  (The value a handler step was given is the
\* one its field holds after the step.)
MutatorFrame ==
  /\ ~selectedYear'.isNull /\ handleYearSelect(selectedYear'.val)
       => UNCHANGED <<selectedRegion, selectedCategory>>
  /\ ~selectedRegion'.isNull /\ handleRegionSelect(selectedRegion'.val)
       => UNCHANGED <<selectedYear, selectedCategory>>
  /\ ~selectedCategory'.isNull /\ handleCategorySelect(selectedCategory'.val)
       => UNCHANGED <<selectedYear, selectedRegion>>

\* A field changes only by its own handler or by the reset, so it holds the
\* last value its handler was given.
LastValueKept ==
  /\ selectedYear' # selectedYear
       => resetFilters \/ (~selectedYear'.isNull /\ handleYearSelect(selectedYear'.val))
  /\ selectedRegion' # selectedRegion
       => resetFilters \/ (~selectedRegion'.isNull /\ handleRegionSelect(selectedRegion'.val))
  /\ selectedCategory' # selectedCategory
       => resetFilters
          \/ (~selectedCategory'.isNull /\ handleCategorySelect(selectedCategory'.val))

\* C11: handleYearSelect(y) sets the year to y and leaves region and category
\* unchanged, and likewise for the region and the category handler; a field
\* is changed by nothing but its own handler and the reset, so after any
\* sequence of calls each dimension holds the last value it was given.
C11_SelectionMutatorsIndependent == [][MutatorFrame /\ LastValueKept]_vars

\* All three dimensions have been selected, one click after the other.
C11_Witness ==
  /\ ~selectedYear.isNull
  /\ ~selectedRegion.isNull
  /\ ~selectedCategory.isNull


(***************************************************************************)
(* The Dashboard that highlights on hover.  It reads filteredData, which   *)
(* only the useMemo hook returns; it offers the year and the region        *)
(* selection, the reset, and the highlight.                                *)
(***************************************************************************)
MaxHoverRows == 2

\* A row of a CSV file without a year and a value column: row.year and
\* row.value are undefined.
SparseRowPool == { Row(Undefined, "her", "S", "P", Undefined) }

\* The rows of the pool but the one of year 0 and the empty region (the
\* selection guards it is there for are studied on the other dashboard),
\* and the row with the missing fields.
HoverRowPool ==
  (RowPool \ {Row(<<"0">>, "had", "", "", <<"1", ".", "5">>)}) \cup SparseRowPool

HoverRowSeqs == SeqsUpTo(HoverRowPool, MaxHoverRows)

\* A handleHover that keeps a highlight that is already set.
handleHoverKeepsPrior(type, value) ==
  hoveredItem' = IF hoveredItem.isNull THEN Just([type |-> type, value |-> value])
                 ELSE hoveredItem

\* setHoveredItem({ type, value })
handleHover(type, value) == hoveredItem' = Just([type |-> type, value |-> value])

\* setHoveredItem(null)
handleHoverLeave == hoveredItem' = Null

getHighlightedData ==
  IF hoveredItem.isNull THEN Null
  ELSE IF hoveredItem.val.type = "year"
       THEN Just(SelectSeq(memoFilteredData,
                           LAMBDA item : StrictEqNum(item.year, hoveredItem.val.value)))
       ELSE Just(SelectSeq(memoFilteredData,
                           LAMBDA item : item.region = hoveredItem.val.value))

highlightedData == getHighlightedData

\* A merge that writes the highlighted total over the bucket's own value.
getHighlightedYearlyDataReplacesValue ==
  IF highlightedData.isNull THEN memoYearlyData
  ELSE LET yearTotals == YearTotals(highlightedData.val)
       IN  [i \in 1..Len(memoYearlyData) |->
              [year             |-> memoYearlyData[i].year,
               value            |-> GetOrZero(yearTotals, memoYearlyData[i].year),
               highlightedValue |-> GetOrZero(yearTotals, memoYearlyData[i].year)]]

getHighlightedYearlyData ==
  IF highlightedData.isNull THEN memoYearlyData
  ELSE LET yearTotals == YearTotals(highlightedData.val)
       IN  [i \in 1..Len(memoYearlyData) |->
              [year             |-> memoYearlyData[i].year,
               value            |-> memoYearlyData[i].value,
               highlightedValue |-> GetOrZero(yearTotals, memoYearlyData[i].year)]]

getHighlightedRegionalData ==
  IF highlightedData.isNull THEN memoRegionalData
  ELSE LET regionTotals == RegionTotals(highlightedData.val)
       IN  [i \in 1..Len(memoRegionalData) |->
              [region           |-> memoRegionalData[i].region,
               value            |-> memoRegionalData[i].value,
               highlightedValue |-> GetOrZero(regionTotals, memoRegionalData[i].region)]]

highlightedYearlyData == getHighlightedYearlyData
highlightedRegionalData == getHighlightedRegionalData

\* The body is rendered once loading is over and no error is shown.
ShownH == ~loading /\ error.isNull

\* fetchData, response ok: setJsonData(result.data); setLoading(false)
FetchResolveH ==
  /\ view = "highlight"
  /\ loading
  /\ \E rows \in HoverRowSeqs : jsonData' = rows
  /\ loading' = FALSE
  /\ lastEvent' = "fetch"
  /\ UNCHANGED <<error, data, pendingEffect, selectedYear, selectedRegion,
                 selectedCategory, engineSeed, view, gridVars, hoveredItem, tableVars>>

\* A failed fetch without the finally block: loading is left as it is.
FetchFailHStaysLoading ==
  /\ view = "highlight"
  /\ loading
  /\ error.isNull
  /\ \E msg \in {"Failed to fetch CSV data", "An error occurred"} : error' = Just(msg)
  /\ lastEvent' = "fail"
  /\ UNCHANGED <<jsonData, loading, data, pendingEffect, selectedYear, selectedRegion,
                 selectedCategory, engineSeed, view, gridVars, hoveredItem, tableVars>>

\* fetchData, response not ok or a throw
FetchFailH ==
  /\ view = "highlight"
  /\ loading
  /\ \E msg \in {"Failed to fetch CSV data", "An error occurred"} : error' = Just(msg)
  /\ loading' = FALSE
  /\ lastEvent' = "fail"
  /\ UNCHANGED <<jsonData, data, pendingEffect, selectedYear, selectedRegion,
                 selectedCategory, engineSeed, view, gridVars, hoveredItem, tableVars>>

\* lineChartOptions.onClick with a point under the pointer
ClickYearH ==
  /\ ShownH
  /\ \E y \in YearKeys(memoYearlyData) : handleYearSelect(y)
  /\ lastEvent' = "select"
  /\ UNCHANGED <<view, gridVars, hoveredItem, tableVars>>

\* region button onClick
ClickRegionH ==
  /\ ShownH
  /\ \E r \in RegionKeys(memoRegionalData) : handleRegionSelect(r)
  /\ lastEvent' = "select"
  /\ UNCHANGED <<view, gridVars, hoveredItem, tableVars>>

\* Reset Filters button
ClickResetH ==
  /\ ShownH
  /\ resetFilters
  /\ lastEvent' = "reset"
  /\ UNCHANGED <<view, gridVars, hoveredItem, tableVars>>

\* lineChartOptions.onHover with a point under the pointer
HoverYear ==
  /\ ShownH
  /\ \E y \in YearKeys(memoYearlyData) : handleHover("year", y)
  /\ lastEvent' = "enter"
  /\ UNCHANGED <<hookVars, view, gridVars, tableVars>>

\* region button onMouseEnter
HoverRegion ==
  /\ ShownH
  /\ \E r \in RegionKeys(memoRegionalData) : handleHover("region", r)
  /\ lastEvent' = "enter"
  /\ UNCHANGED <<hookVars, view, gridVars, tableVars>>

\* lineChartOptions.onHover with no point under the pointer; region button
\* onMouseLeave
HoverLeave ==
  /\ ShownH
  /\ handleHoverLeave
  /\ lastEvent' = "leave"
  /\ UNCHANGED <<hookVars, view, gridVars, tableVars>>

InitHover ==
  /\ view = "highlight"
  /\ HookInit
  /\ HighlightInit
  /\ TableInit
  /\ GridIdle

NextHover ==
  \/ FetchResolveH
  \/ FetchFailH
  \/ ClickYearH
  \/ ClickRegionH
  \/ ClickResetH
  \/ HoverYear
  \/ HoverRegion
  \/ HoverLeave

SpecHover == InitHover /\ [][NextHover]_vars


(***************************************************************************)
(* Highlight: reset, non-interference, merge, lifecycle.                   *)
(***************************************************************************)
\* a and b are the same highlight
SameHover(a, b) ==
  /\ a.isNull = b.isNull
  /\ ~a.isNull => a.val.type = b.val.type /\ a.val.value = b.val.value

YearBase(q) == [i \in 1..Len(q) |-> [year |-> q[i].year, value |-> q[i].value]]
RegionBase(q) == [i \in 1..Len(q) |-> [region |-> q[i].region, value |-> q[i].value]]

\* C13: setting or clearing the highlight changes neither the selection nor
\* the record set, the engine's order and the selection that filteredData
\* and the base aggregates are computed from; the highlighted aggregates
\* carry the key and the value of the base entries, and differ from them in
\* highlightedValue only.
C13_HighlightNonInterference ==
  /\ [](/\ YearBase(highlightedYearlyData) = memoYearlyData
        /\ RegionBase(highlightedRegionalData) = memoRegionalData)
  /\ [][lastEvent' \in {"enter", "leave"} =>
          UNCHANGED <<jsonData, selectedYear, selectedRegion, selectedCategory,
                      engineSeed>>]_vars

\* A bucket has just been highlighted under a region selection, and some
\* yearly entry's highlighted value is not its value.
C13_Witness ==
  /\ lastEvent = "enter"
  /\ ~hoveredItem.isNull
  /\ ~selectedRegion.isNull
  /\ \E i \in 1..Len(highlightedYearlyData) :
       highlightedYearlyData[i].highlightedValue # highlightedYearlyData[i].value

\* item matches the highlight: exact equality on the year or on the region
MatchesHighlight(item) ==
  IF hoveredItem.val.type = "year" THEN StrictEqNum(item.year, hoveredItem.val.value)
  ELSE item.region = hoveredItem.val.value

\* C14: with a highlight set, the highlighted yearly and regional aggregates
\* have the base aggregates' buckets in the same order, and the
\* highlightedValue of each bucket is the sum of value over the records of
\* filteredData that match the highlight and share the bucket's key (0 when
\* there is none).
C14_HighlightMerge ==
  ~hoveredItem.isNull =>
    /\ Len(highlightedYearlyData) = Len(memoYearlyData)
    /\ \A i \in 1..Len(memoYearlyData) :
         /\ highlightedYearlyData[i].year = memoYearlyData[i].year
         /\ highlightedYearlyData[i].highlightedValue =
              Total(SelectSeq(memoFilteredData, LAMBDA item :
                      MatchesHighlight(item) /\ item.year = memoYearlyData[i].year))
    /\ Len(highlightedRegionalData) = Len(memoRegionalData)
    /\ \A i \in 1..Len(memoRegionalData) :
         /\ highlightedRegionalData[i].region = memoRegionalData[i].region
         /\ highlightedRegionalData[i].highlightedValue =
              Total(SelectSeq(memoFilteredData, LAMBDA item :
                      MatchesHighlight(item) /\ item.region = memoRegionalData[i].region))

\* h is the highlight of a bucket of the given kind and key
IsHover(h, type, value) == ~h.isNull /\ h.val.type = type /\ h.val.value = value

\* C15: a pointer-enter sets the highlight to the kind and the key of a
\* bucket on display, the one under the pointer, whatever the highlight was
\* (a highlight of a bucket no longer on display included); a pointer-leave
\* sets it to unset; nothing else changes the highlight, and no highlight
\* step changes the selection.
C15_HighlightLifecycle ==
  [][/\ lastEvent' = "enter" =>
          \/ \E y \in YearKeys(memoYearlyData) : IsHover(hoveredItem', "year", y)
          \/ \E r \in RegionKeys(memoRegionalData) : IsHover(hoveredItem', "region", r)
     /\ lastEvent' = "leave" => hoveredItem'.isNull
     /\ lastEvent' \in {"enter", "leave"}
          => UNCHANGED <<selectedYear, selectedRegion, selectedCategory>>
     /\ ~SameHover(hoveredItem', hoveredItem) => lastEvent' \in {"enter", "leave"}]_vars

\* A region has just been highlighted while a year, and no region, is selected.
C15_Witness ==
  /\ lastEvent = "enter"
  /\ ~hoveredItem.isNull
  /\ hoveredItem.val.type = "region"
  /\ ~selectedYear.isNull
  /\ selectedRegion.isNull


(***************************************************************************)
(* The selection filter as a function of the record set.                   *)
(***************************************************************************)
NoSelection == selectedYear.isNull /\ selectedRegion.isNull /\ selectedCategory.isNull

\* C16: with an empty selection filteredData is the full record set, in the
\* same order; and the filter applied under the same selection to its own
\* result yields that result.  For both hooks.
C16_FilterIdentityIdempotence ==
  /\ NoSelection => memoFilteredData = memoProcessedData /\ effFilteredData = data
  /\ memoFilter(memoFilteredData) = memoFilteredData
  /\ effFilter(effFilteredData) = effFilteredData

\* A selection under which the filter keeps some records and drops others.
C16_Witness ==
  /\ ~NoSelection
  /\ memoFilteredData # <<>>
  /\ Len(memoFilteredData) < Len(memoProcessedData)
  /\ effFilteredData = memoFilteredData


(***************************************************************************)
(* app/page.tsx: Home, the raw table with its search box and its column    *)
(* filters.  Texts are sequences of characters.                            *)
(***************************************************************************)
MaxTableRows == 2

\* String.prototype.toLowerCase, on the letters the texts are made of
LowerChar(c) ==
  CASE c = "C" -> "c"
    [] c = "O" -> "o"
    [] c = "D" -> "d"
    [] OTHER -> c

toLowerCase(s) == [i \in 1..Len(s) |-> LowerChar(s[i])]

\* String.prototype.includes
includes(s, t) ==
  \E i \in 0..(Len(s) - Len(t)) : SubSeq(s, i + 1, i + Len(t)) = t

\* String.prototype.trim
RECURSIVE trim(_)
trim(s) ==
  IF s = <<>> THEN s
  ELSE IF IsWhite(Head(s)) THEN trim(Tail(s))
  ELSE IF IsWhite(Last(s)) THEN trim(Front(s))
  ELSE s

TableRow(y, n) == [Year |-> y, SpeciesName |-> n]

\* Rows of a CSV file that has a Year and a SpeciesName column and no
\* StockDescription column; a name in mixed case, a name in lower case, an
\* empty cell.
TableRowPool ==
  { TableRow(<<"7">>, <<"C", "o", "d">>),
    TableRow(<<"8">>, <<"c">>),
    TableRow(<<"7">>, <<>>) }

TableRowSeqs == SeqsUpTo(TableRowPool, MaxTableRows)

\* What the user types into the search box: nothing, a blank, a term in
\* mixed case, a digit, a digit after a blank.
SearchTexts == { <<>>, <<" ">>, <<"o", "D">>, <<"7">>, <<" ", "7">> }

\* The inputs of the three column filters, and what the user types into one.
FilterColumns == {"Year", "SpeciesName", "StockDescription"}
FilterTexts == { <<>>, <<"C">> }

\* row[key], undefined for a column the row does not have
HasColumn(row, key) == key \in DOMAIN row

\* applyFilters with the cell compared as it is written
applyFiltersCaseSensitive(rows, filters) ==
  SelectSeq(rows, LAMBDA row :
    \A key \in DOMAIN filters :
      \/ filters[key] = <<>>
      \/ /\ HasColumn(row, key)
         /\ includes(row[key], toLowerCase(filters[key])))

\* data.filter(row => Object.entries(activeFilters).every(([key, value]) =>
\*   !value || row[key]?.toString().toLowerCase().includes(value.toLowerCase())))
applyFilters(rows, filters) ==
  SelectSeq(rows, LAMBDA row :
    \A key \in DOMAIN filters :
      \/ filters[key] = <<>>
      \/ /\ HasColumn(row, key)
         /\ includes(toLowerCase(row[key]), toLowerCase(filters[key])))

\* The body of the filter effect: the search, with the term lower-cased
\* and not trimmed, then applyFilters.
tableFilter(rows, term, filters) ==
  LET searched ==
        IF trim(term) # <<>>
        THEN SelectSeq(rows, LAMBDA row :
               \E key \in DOMAIN row :
                 /\ row[key] # <<>>
                 /\ includes(toLowerCase(row[key]), toLowerCase(term)))
        ELSE rows
  IN  applyFilters(searched, filters)

\* A fetch after which no filter effect runs, as if data were not among the
\* dependencies of the effect.
TableFetchResolveNoEffect ==
  /\ view = "table"
  /\ tableLoading
  /\ ~filterPending
  /\ \E rows \in TableRowSeqs :
       /\ tableData' = rows
       /\ tableFilteredData' = rows
  /\ tableLoading' = FALSE
  /\ UNCHANGED <<searchTerm, activeFilters, tableError, filterPending,
                 view, gridVars, hookVars, highlightVars>>

\* fetchData, response ok: setData, setFilteredData (and setColumns), then
\* setLoading(false); data changed, so the filter effect is due.  The effects
\* of the mount have run by the time the response arrives.
TableFetchResolve ==
  /\ view = "table"
  /\ tableLoading
  /\ ~filterPending
  /\ \E rows \in TableRowSeqs :
       /\ tableData' = rows
       /\ tableFilteredData' = rows
  /\ tableLoading' = FALSE
  /\ filterPending' = TRUE
  /\ UNCHANGED <<searchTerm, activeFilters, tableError, view, gridVars, hookVars, highlightVars>>

\* fetchData, response not ok or a throw: setError, then setLoading(false)
TableFetchFail ==
  /\ view = "table"
  /\ tableLoading
  /\ ~filterPending
  /\ \E msg \in {"Failed to fetch CSV data", "An error occurred"} : tableError' = Just(msg)
  /\ tableLoading' = FALSE
  /\ UNCHANGED <<tableData, tableFilteredData, searchTerm, activeFilters, filterPending,
                 view, gridVars, hookVars, highlightVars>>

\* The filter effect that writes its result into data as well.
FilterEffectInPlace ==
  /\ view = "table"
  /\ filterPending
  /\ tableFilteredData' = tableFilter(tableData, searchTerm, activeFilters)
  /\ tableData' = tableFilter(tableData, searchTerm, activeFilters)
  /\ filterPending' = FALSE
  /\ UNCHANGED <<searchTerm, activeFilters, tableLoading, tableError,
                 view, gridVars, hookVars, highlightVars>>

\* useEffect(() => { ...; setFilteredData(filtered) }, [searchTerm, data, activeFilters])
FilterEffect ==
  /\ view = "table"
  /\ filterPending
  /\ tableFilteredData' = tableFilter(tableData, searchTerm, activeFilters)
  /\ filterPending' = FALSE
  /\ UNCHANGED <<tableData, searchTerm, activeFilters, tableLoading, tableError,
                 view, gridVars, hookVars, highlightVars>>

\* search input onChange: setSearchTerm(e.target.value).  React runs a
\* pending effect before it handles the next event.
SetSearchTerm ==
  /\ view = "table"
  /\ ~filterPending
  /\ \E text \in SearchTexts \ {searchTerm} : searchTerm' = text
  /\ filterPending' = TRUE
  /\ UNCHANGED <<tableData, tableFilteredData, activeFilters, tableLoading, tableError,
                 view, gridVars, hookVars, highlightVars>>

\* the text a filter input shows: activeFilters[column] || ''
FilterText(column) ==
  IF column \in DOMAIN activeFilters THEN activeFilters[column] ELSE <<>>

\* filter input onChange: setActiveFilters(prev => ({ ...prev, [column]: value }))
SetFilter ==
  /\ view = "table"
  /\ ~filterPending
  /\ \E column \in FilterColumns :
       \E text \in FilterTexts \ {FilterText(column)} :
         activeFilters' =
           [key \in DOMAIN activeFilters \cup {column} |->
              IF key = column THEN text ELSE activeFilters[key]]
  /\ filterPending' = TRUE
  /\ UNCHANGED <<tableData, tableFilteredData, searchTerm, tableLoading, tableError,
                 view, gridVars, hookVars, highlightVars>>

\* the clear button of a filter whose text is not empty: delete newFilters[column]
ClearFilter ==
  /\ view = "table"
  /\ ~filterPending
  /\ \E column \in DOMAIN activeFilters :
       /\ activeFilters[column] # <<>>
       /\ activeFilters' = [key \in DOMAIN activeFilters \ {column} |-> activeFilters[key]]
  /\ filterPending' = TRUE
  /\ UNCHANGED <<tableData, tableFilteredData, searchTerm, tableLoading, tableError,
                 view, gridVars, hookVars, highlightVars>>

InitHome ==
  /\ view = "table"
  /\ HookInit
  /\ HighlightInit
  /\ TableInit
  /\ GridIdle

NextHome ==
  \/ TableFetchResolve
  \/ TableFetchFail
  \/ FilterEffect
  \/ SetSearchTerm
  \/ SetFilter
  \/ ClearFilter

SpecHome == InitHome /\ [][NextHome]_vars


\* Either page of the application: the dashboard or the raw table.
InitViews ==
  /\ view \in {"dashboard", "table"}
  /\ HookInit
  /\ HighlightInit
  /\ TableInit
  /\ GridIdle

NextViews ==
  \/ Next
  \/ NextHome

SpecViews == InitViews /\ [][NextViews]_vars

(***************************************************************************)
(* Filtering: subsequence, raw-table predicate.                            *)
(***************************************************************************)
\* a is b with some of its elements left out
RECURSIVE IsSubseq(_, _)
IsSubseq(a, b) ==
  IF a = <<>> THEN TRUE
  ELSE IF b = <<>> THEN FALSE
  ELSE IF Head(a) = Head(b) THEN IsSubseq(Tail(a), Tail(b))
  ELSE IsSubseq(a, Tail(b))

\* C17: filtering leaves the source record set as it is, and its result is a
\* subsequence of the source (order kept, nothing duplicated or altered):
\* for the selection filter of both hooks and for the search and column
\* filter of the raw table.
C17_FilterSubsequence ==
  /\ [](/\ IsSubseq(memoFilteredData, memoProcessedData)
        /\ IsSubseq(effFilteredData, data)
        /\ IsSubseq(tableFilter(tableData, searchTerm, activeFilters), tableData)
        /\ IsSubseq(tableFilteredData, tableData))
  /\ [][/\ <<selectedYear, selectedRegion, selectedCategory>>'
             # <<selectedYear, selectedRegion, selectedCategory>>
             => UNCHANGED <<jsonData, data>>
        /\ filterPending /\ ~filterPending' => tableData' = tableData]_vars

\* The raw table shows the second of two rows and not the first.
C17_Witness ==
  /\ ~filterPending
  /\ Len(tableData) = 2
  /\ Len(tableFilteredData) = 1
  /\ tableFilteredData[1] = tableData[2]
  /\ tableData[1] # tableData[2]

\* s contains t, letter case set aside
ContainsCI(s, t) == includes(toLowerCase(s), toLowerCase(t))
\* t is empty or white space only
Blank(t) == \A i \in 1..Len(t) : IsWhite(t[i])

RowShown(row) ==
  /\ \/ Blank(searchTerm)
     \/ \E column \in DOMAIN row : ContainsCI(row[column], searchTerm)
  /\ \A column \in DOMAIN activeFilters :
       activeFilters[column] # <<>>
         => HasColumn(row, column) /\ ContainsCI(row[column], activeFilters[column])

\* C19: a raw row is shown if and only if (the search term is blank or some
\* field of the row contains the term, letter case set aside) and, for every
\* column filter with a non-empty value, the row's value in that column
\* contains the filter value, letter case set aside.  The filter computes
\* exactly these rows, and they are the rows on display once the filter
\* effect has run.
C19_RawTableFilter ==
  /\ tableFilter(tableData, searchTerm, activeFilters) = SelectSeq(tableData, RowShown)
  /\ ~filterPending => tableFilteredData = SelectSeq(tableData, RowShown)

\* A search term in mixed case and a column filter are set, the effect has
\* run, and a row is shown while another is not.
C19_Witness ==
  /\ ~filterPending
  /\ searchTerm = <<"o", "D">>
  /\ "SpeciesName" \in DOMAIN activeFilters
  /\ activeFilters["SpeciesName"] = <<"C">>
  /\ tableFilteredData # <<>>
  /\ Len(tableFilteredData) < Len(tableData)


(***************************************************************************)
(* Reactive recompute.                                                     *)
(***************************************************************************)
\* C18: in every render of the dashboard body, the filteredData a hook works
\* with is the selection filter applied to the normalization of the current
\* source rows, and the yearly, regional and hierarchical aggregates it
\* exposes are the aggregators applied to that filteredData: no render
\* exposes aggregates of a stale record set or of a stale selection.
C18_ReactiveRecompute ==
  ~loading /\ error.isNull =>
    /\ memoFilteredData = memoFilter(processData(jsonData))
    /\ memoYearlyData = sortByYear(YearEntries(YearTotals(memoFilteredData)))
    /\ memoRegionalData = sortByValue(RegionEntries(RegionTotals(memoFilteredData)))
    /\ effFilteredData = effFilter(processData(jsonData))
    /\ effYearlyData = aggregateByYear(effFilter(processData(jsonData)))
    /\ effRegionalData = aggregateByRegion(effFilter(processData(jsonData)))
    /\ effHierarchicalData = createHierarchicalData(effFilter(processData(jsonData)))


(***************************************************************************)
(* Normalization.                                                          *)
(***************************************************************************)
\* s holds no decimal digit: it is no number, whatever the parser skips
NoDigit(s) == \A i \in 1..Len(s) : ~IsDigit(s[i], DecDigits)

IsNumber(x) == x = NaN \/ (~x.nan /\ x.n \in Int)

FirstRegion(d, region) == CHOOSE i \in 1..Len(d) :
  d[i].region = region /\ \A j \in 1..(i - 1) : d[j].region # region
FirstCategory(d, category) == CHOOSE i \in 1..Len(d) :
  d[i].category = category /\ \A j \in 1..(i - 1) : d[j].category # category
FirstStock(d, category, stock) == CHOOSE i \in 1..Len(d) :
  /\ d[i].category = category /\ d[i].stock = stock
  /\ \A j \in 1..(i - 1) : ~(d[j].category = category /\ d[j].stock = stock)

\* entries of equal value stand in the order in which their keys were first met
RegionTies(regional, d) ==
  \A i, j \in 1..Len(regional) :
    i < j /\ StrictEqNum(regional[i].value, regional[j].value)
      => FirstRegion(d, regional[i].region) < FirstRegion(d, regional[j].region)

NodeTies(hier, d) ==
  \A i, j \in 1..Len(hier) :
    i < j /\ StrictEqNum(hier[i].value, hier[j].value)
      => FirstCategory(d, hier[i].name) < FirstCategory(d, hier[j].name)

ChildTies(hier, d) ==
  \A n \in 1..Len(hier) :
    \A i, j \in 1..Len(hier[n].children) :
      i < j /\ StrictEqNum(hier[n].children[i].value, hier[n].children[j].value)
        => FirstStock(d, hier[n].name, hier[n].children[i].name)
             < FirstStock(d, hier[n].name, hier[n].children[j].name)

NoNaNChild(hier) == \A n \in 1..Len(hier) : NoNaNValue(hier[n].children)

C25_FilteredDataNonEmpty ==
  /\ memoProcessedData # <<>> => memoFilteredData # <<>>
  /\ data # <<>> => effFilteredData # <<>>

\* All three dimensions are selected and some, not all, records pass.
C25_Witness ==
  /\ ~NoSelection
  /\ ~selectedYear.isNull /\ ~selectedRegion.isNull /\ ~selectedCategory.isNull
  /\ effFilteredData # <<>>
  /\ Len(effFilteredData) < Len(data)
  /\ Len(memoFilteredData) < Len(memoProcessedData)

YearLocked == ~selectedYear.isNull /\ TruthyNum(selectedYear.val)
RegionLocked == ~selectedRegion.isNull /\ TruthyStr(selectedRegion.val)
CategoryLocked == ~selectedCategory.isNull /\ TruthyStr(selectedCategory.val)

\* C26: once a non-zero numeric year is selected the yearly aggregate on
\* display has that one bucket, so a chart click can select that year only,
\* and the year changes by the reset alone; likewise for a non-empty region
\* and a non-empty category.
C26_SelectionLockIn ==
  /\ [](/\ YearLocked =>
             /\ YearKeys(memoYearlyData) = {selectedYear.val}
             /\ YearKeys(effYearlyData) = {selectedYear.val}
        /\ RegionLocked =>
             /\ RegionKeys(memoRegionalData) = {selectedRegion.val}
             /\ RegionKeys(effRegionalData) = {selectedRegion.val}
        /\ CategoryLocked =>
             /\ NameKeys(memoHierarchicalData) = {selectedCategory.val}
             /\ NameKeys(effHierarchicalData) = {selectedCategory.val})
  /\ [][/\ YearLocked /\ selectedYear' # selectedYear => resetFilters
        /\ RegionLocked /\ selectedRegion' # selectedRegion => resetFilters
        /\ CategoryLocked /\ selectedCategory' # selectedCategory => resetFilters]_vars

\* A year is selected out of a record set of two years or more, and a click
\* on the one point left has been made.
C26_Witness ==
  /\ YearLocked
  /\ Cardinality(YearKeys(aggregateByYear(memoProcessedData))) >= 2
  /\ Len(memoYearlyData) = 1
  /\ Len(effYearlyData) = 1
  /\ RegionLocked

(***************************************************************************)
(* The two hooks side by side.                                             *)
(***************************************************************************)
\* the children of the node of the given name
ChildrenOf(hier, name) ==
  hier[CHOOSE i \in 1..Len(hier) : hier[i].name = name].children

\* C27: on settled state (no effect pending) the two hooks have the same
\* filteredData, expose the same yearly and the same regional aggregate,
\* and hierarchical aggregates with the same category names, each with the
\* same ordered list of children.
C27_HookEquivalence ==
  LET effHier == effHierarchicalData
      memoHier == memoHierarchicalData
  IN  ~pendingEffect =>
        /\ memoFilteredData = effFilteredData
        /\ memoYearlyData = effYearlyData
        /\ memoRegionalData = effRegionalData
        /\ NameKeys(memoHier) = NameKeys(effHier)
        /\ Len(memoHier) = Len(effHier)
        /\ \A name \in NameKeys(memoHier) :
             ChildrenOf(memoHier, name) = ChildrenOf(effHier, name)


\* Settled, a category node with two children, and the two hooks put their
\* category nodes in different orders.
C27_Witness ==
  /\ ~pendingEffect
  /\ data # <<>>
  /\ \E i \in 1..Len(effHierarchicalData) : Len(effHierarchicalData[i].children) = 2
  /\ memoHierarchicalData # effHierarchicalData
  /\ Len(effRegionalData) = 2


(***************************************************************************)
(* The raw table once everything has settled; the loads.                   *)
(***************************************************************************)
\* C24: in every quiescent state of the raw-table page (the fetch has ended,
\* no filter effect is pending) filteredData is the search and column
\* filter applied to data under the current searchTerm and activeFilters,
\* whatever the order of typing, filter edits and the end of the fetch.
C24_QuiescentFilter ==
  ~tableLoading /\ ~filterPending =>
    tableFilteredData = tableFilter(tableData, searchTerm, activeFilters)

\* The fetch has delivered two rows, a digit is searched for and a column
\* filter has a key with an empty text; one row is on display.
C24_Witness ==
  /\ ~tableLoading
  /\ ~filterPending
  /\ tableError.isNull
  /\ searchTerm = <<"7">>
  /\ "Year" \in DOMAIN activeFilters
  /\ Len(tableData) = 2
  /\ Len(tableFilteredData) = 1

\* Any of the three pages.
InitPages ==
  /\ view \in {"dashboard", "highlight", "table"}
  /\ HookInit
  /\ HighlightInit
  /\ TableInit
  /\ GridIdle

NextPages ==
  \/ view = "dashboard" /\ Next
  \/ view = "highlight" /\ NextHover
  \/ view = "table" /\ NextHome

SpecPages == InitPages /\ [][NextPages]_vars

\* C28: a load ends with loading false, whether the fetch succeeds or fails
\* (response not ok, or a throw); error is non-null exactly when the load
\* has failed; after a failed load the data is the empty sequence it
\* started as.  For the dashboards and for the raw-table page.
C28_FetchLifecycle ==
  /\ [](/\ loading => error.isNull /\ jsonData = <<>>
        /\ ~error.isNull => ~loading /\ jsonData = <<>> /\ data = <<>>
        /\ tableLoading => tableError.isNull /\ tableData = <<>>
        /\ ~tableError.isNull =>
             ~tableLoading /\ tableData = <<>> /\ tableFilteredData = <<>>)
  /\ [][/\ FetchResolve \/ FetchResolveH => ~loading' /\ error'.isNull
        /\ FetchFail \/ FetchFailH => ~loading' /\ ~error'.isNull
        /\ TableFetchResolve => ~tableLoading' /\ tableError'.isNull
        /\ TableFetchFail => ~tableLoading' /\ ~tableError'.isNull
        /\ ~loading => ~loading' /\ error' = error /\ jsonData' = jsonData
        /\ ~tableLoading =>
             ~tableLoading' /\ tableError' = tableError /\ tableData' = tableData]_vars

\* The load of the raw-table page has failed and the user has typed since.
C28_Witness ==
  /\ ~tableLoading
  /\ ~tableError.isNull
  /\ searchTerm # <<>>
  /\ ~filterPending


(***************************************************************************)
(* DataTable: the sortable, paged table of the raw-table page, with its    *)
(* column chooser.  The props are data (Home's filteredData) and columns   *)
(* (the keys of the first row the fetch delivered).                        *)
(***************************************************************************)
MaxGridRows == 61
MaxColumns == 9

\* useState(10); setRowsPerPage is never called
rowsPerPage == 10

\* Cells of a Year and a SpeciesName column: two numbers, a text that starts
\* with a digit, the same number twice, an empty cell.
GridCycle ==
  << TableRow(<<"1", "0">>, <<"b">>),
     TableRow(<<"9">>, <<"a">>),
     TableRow(<<"1", "a">>, <<>>),
     TableRow(<<"9">>, <<"b">>) >>

\* a dataset of n rows
GridRows(n) == [i \in 1..n |-> GridCycle[((i - 1) % Len(GridCycle)) + 1]]

\* The row counts of the data prop: none, a part of a page, more than one
\* page, the whole dataset.
GridLens == {0, 2, 3, rowsPerPage + 1, MaxGridRows}

GridDatas == {GridRows(n) : n \in GridLens}

\* The header of the CSV file, as far as the model reads it.
DatasetHeader ==
  SubSeq(<< "FishStock", "ICES Areas (tilde delimited)", "AssessmentKey",
            "SpeciesName", "StockDescription", "Year", "Recruitment",
            "StockSize", "StockSizeUnits", "Purpose" >>, 1, MaxColumns)

RECURSIVE Subseqs(_)
Subseqs(s) ==
  IF s = <<>> THEN {<<>>}
  ELSE LET rest == Subseqs(Tail(s))
       IN  rest \cup {<<Head(s)>> \o q : q \in rest}

\* the headers of the files that have some of the dataset's columns
Headers == Subseqs(DatasetHeader)

\* a row of empty cells under the header h
HeaderRow(h) == [c \in Range(h) |-> <<>>]

LowerLetters ==
  << "a", "b", "c", "d", "e", "f", "g", "h", "i", "j", "k", "l", "m",
     "n", "o", "p", "q", "r", "s", "t", "u", "v", "w", "x", "y", "z" >>

\* the code unit of a character
CharCode(c) ==
  CASE c = " " -> 32
    [] c = "+" -> 43
    [] c = "-" -> 45
    [] c = "." -> 46
    [] IsDigit(c, DecDigits) -> 48 + DigitVal(c, DecDigits)
    [] IsDigit(c, LowerLetters) -> 97 + DigitVal(c, LowerLetters)

\* a < b on strings: by code units, a proper prefix is less
RECURSIVE StrLess(_, _)
StrLess(a, b) ==
  IF b = <<>> THEN FALSE
  ELSE IF a = <<>> THEN TRUE
  ELSE IF Head(a) = Head(b) THEN StrLess(Tail(a), Tail(b))
  ELSE CharCode(Head(a)) < CharCode(Head(b))

\* Number(s) of a string: white space is trimmed, the empty string is 0, a
\* decimal literal is its value (in tenths), anything else is NaN.
Number(s) ==
  LET t == trim(s)
      u == DropSign(t)
      ip == DigitPrefix(u, DecDigits)
      r == Drop(u, Len(ip))
      point == r # <<>> /\ Head(r) = "."
      fp == IF point THEN DigitPrefix(Tail(r), DecDigits) ELSE <<>>
      rest == IF point THEN Drop(r, 1 + Len(fp)) ELSE r
  IN  IF t = <<>> THEN Num(0)
      ELSE IF rest = <<>> /\ (ip # <<>> \/ fp # <<>>) THEN parseFloat(t)
      ELSE NaN

\* row[key] || ''
OrEmpty(row, key) ==
  IF key \in DOMAIN row /\ row[key] # <<>> THEN row[key] ELSE <<>>

\* the comparator of sortedData
compare(a, b, config) ==
  LET aValue == OrEmpty(a, config.key)
      bValue == OrEmpty(b, config.key)
      aNum == Number(aValue)
      bNum == Number(bValue)
      asc == config.direction = "ascending"
  IN  IF ~aNum.nan /\ ~bNum.nan
      THEN IF asc THEN Sub(aNum, bNum) ELSE Sub(bNum, aNum)
      ELSE IF StrLess(aValue, bValue) THEN Num(IF asc THEN -1 ELSE 1)
      ELSE IF StrLess(bValue, aValue) THEN Num(IF asc THEN 1 ELSE -1)
      ELSE Num(0)

\* The pairs of rows of arr that the comparator does not put in descending
\* order: a before b, or equal
NotAfter(arr, config) ==
  {p \in Range(arr) \X Range(arr) : compare(p[1], p[2], config).n <= 0}

\* The comparator orders the rows of arr consistently: it is transitive on
\* them (it is antisymmetric by its form).  It compares two numbers as
\* numbers and anything else as strings, which need not agree.
ConsistentOn(arr, config) ==
  LET le == NotAfter(arr, config)
  IN  \A p, q \in le : p[2] = q[1] => <<p[1], q[2]>> \in le

\* each row of arr with the number of rows of arr that sort before it
Ranks(arr, config) ==
  LET le == NotAfter(arr, config)
  IN  {<<r, Cardinality({q \in Range(arr) : <<r, q>> \notin le})>> : r \in Range(arr)}

RankOf(ranks, r) == (CHOOSE p \in ranks : p[1] = r)[2]

\* the rows of arr of the ranks 0..k, by rank, rows of one rank in the order
\* of arr
RECURSIVE ByRank(_, _, _)
ByRank(arr, ranks, k) ==
  IF k < 0 THEN <<>>
  ELSE ByRank(arr, ranks, k - 1) \o SelectSeq(arr, LAMBDA r : RankOf(ranks, r) = k)

\* [...arr].sort(comparator): the stable sort (equal rows keep their order),
\* or under an inconsistent comparator the permutation the engine yields
sortRows(arr, config) ==
  IF ConsistentOn(arr, config)
  THEN ByRank(arr, Ranks(arr, config), Cardinality(Range(arr)) - 1)
  ELSE Permute(arr, engineSeed)

sortedData ==
  IF sortConfig.isNull THEN gridData ELSE sortRows(gridData, sortConfig.val)

\* requestSort that goes back to no sorting from descending
requestSortThreeState(key) ==
  IF ~sortConfig.isNull /\ sortConfig.val.key = key
  THEN IF sortConfig.val.direction = "ascending"
       THEN Just([key |-> key, direction |-> "descending"])
       ELSE Null
  ELSE Just([key |-> key, direction |-> "ascending"])

\* the sortConfig that requestSort(key) sets
requestSort(key) ==
  Just([key |-> key,
        direction |-> IF /\ ~sortConfig.isNull
                         /\ sortConfig.val.key = key
                         /\ sortConfig.val.direction = "ascending"
                      THEN "descending" ELSE "ascending"])

\* Math.ceil(n / d) for n >= 0, d > 0
Ceil(n, d) == (n + d - 1) \div d

Least(a, b) == IF a < b THEN a ELSE b
Greatest(a, b) == IF a > b THEN a ELSE b

totalPages == Ceil(Len(sortedData), rowsPerPage)

\* Array.prototype.slice(start, end)
slice(arr, start, end) ==
  LET len == Len(arr)
      from == IF start < 0 THEN Greatest(len + start, 0) ELSE Least(start, len)
      to == IF end < 0 THEN Greatest(len + end, 0) ELSE Least(end, len)
  IN  IF from < to THEN SubSeq(arr, from + 1, to) ELSE <<>>

paginatedData ==
  slice(sortedData, (currentPage - 1) * rowsPerPage, currentPage * rowsPerPage)

\* the number on the i-th page button, i from 0, of a table of that many pages
pageNum(i, pages) ==
  IF pages <= 5 THEN i + 1
  ELSE IF currentPage <= 3 THEN i + 1
  ELSE IF currentPage >= pages - 2 THEN pages - 4 + i
  ELSE currentPage - 2 + i

\* the visibleColumns that toggleColumnVisibility(column) sets
toggleColumnVisibility(column) ==
  IF column \in Range(visibleColumns)
  THEN IF Len(visibleColumns) > 1
       THEN SelectSeq(visibleColumns, LAMBDA col : col # column)
       ELSE visibleColumns
  ELSE Append(visibleColumns, column)

\* the visibleColumns that toggleAllColumns(checked) sets
toggleAllColumns(checked) == IF checked THEN gridColumns ELSE <<>>

priorityColumns ==
  << "SpeciesName", "Year", "StockSize", "StockSizeUnits", "FishStock",
     "StockDescription", "ICES Areas (tilde delimited)" >>

initialVisibleColumns ==
  LET priority(col) == col \in Range(priorityColumns)
      result == SelectSeq(gridColumns, priority)
      remaining == SelectSeq(gridColumns, LAMBDA col : ~priority(col))
  IN  IF Len(result) < 6
      THEN result \o slice(remaining, 0, 6 - Len(result))
      ELSE result

outsideGrid == <<view, hookVars, highlightVars, tableVars>>

\* useEffect(() => setVisibleColumns(initialVisibleColumns)), after the mount
ColumnsEffect ==
  /\ view = "grid"
  /\ columnsPending
  /\ visibleColumns' = initialVisibleColumns
  /\ columnsPending' = FALSE
  /\ UNCHANGED <<gridData, gridColumns, sortConfig, currentPage, outsideGrid>>

\* a click on the header of a column on display
RequestSort ==
  /\ view = "grid"
  /\ ~columnsPending
  /\ \E column \in Range(visibleColumns) : sortConfig' = requestSort(column)
  /\ UNCHANGED <<gridData, gridColumns, currentPage, visibleColumns, columnsPending,
                 outsideGrid>>

\* a click on the checkbox of a column
ToggleColumn ==
  /\ view = "grid"
  /\ ~columnsPending
  /\ \E column \in Range(gridColumns) :
       visibleColumns' = toggleColumnVisibility(column)
  /\ UNCHANGED <<gridData, gridColumns, sortConfig, currentPage, columnsPending,
                 outsideGrid>>

\* A click on the Toggle All checkbox, which is shown checked when as many
\* columns are visible as there are: the click hands over the other state.
ToggleAll ==
  /\ view = "grid"
  /\ ~columnsPending
  /\ visibleColumns' = toggleAllColumns(~(Len(visibleColumns) = Len(gridColumns)))
  /\ UNCHANGED <<gridData, gridColumns, sortConfig, currentPage, columnsPending,
                 outsideGrid>>

\* a click on Previous, which is disabled on page 1
PreviousPage ==
  /\ view = "grid"
  /\ ~columnsPending
  /\ currentPage # 1
  /\ currentPage' = IF currentPage > 1 THEN currentPage - 1 ELSE 1
  /\ UNCHANGED <<gridData, gridColumns, sortConfig, visibleColumns, columnsPending,
                 outsideGrid>>

\* a click on Next, which is disabled when currentPage is totalPages
NextPage ==
  /\ view = "grid"
  /\ ~columnsPending
  /\ LET pages == totalPages
     IN  /\ currentPage # pages
         /\ currentPage' = IF currentPage < pages THEN currentPage + 1 ELSE pages
  /\ UNCHANGED <<gridData, gridColumns, sortConfig, visibleColumns, columnsPending,
                 outsideGrid>>

\* a click on one of the page buttons, of which there are Math.min(5, totalPages)
GotoPage ==
  /\ view = "grid"
  /\ ~columnsPending
  /\ LET pages == totalPages
     IN  \E i \in 0..(Least(5, pages) - 1) : currentPage' = pageNum(i, pages)
  /\ UNCHANGED <<gridData, gridColumns, sortConfig, visibleColumns, columnsPending,
                 outsideGrid>>

\* Home's filter effect hands over another filteredData
DataChange ==
  /\ view = "grid"
  /\ ~columnsPending
  /\ gridColumns # <<>>
  /\ \E rows \in GridDatas :
       /\ rows # gridData
       /\ gridData' = rows
  /\ UNCHANGED <<gridColumns, sortConfig, currentPage, visibleColumns, columnsPending,
                 outsideGrid>>

\* DataTable mounted with the props data and columns
GridMounted(rows, header) ==
  /\ view = "grid"
  /\ HookInit
  /\ HighlightInit
  /\ TableInit
  /\ gridData = rows
  /\ gridColumns = header
  /\ sortConfig = Null
  /\ currentPage = 1
  /\ visibleColumns = header
  /\ columnsPending = TRUE

\* The fetch has delivered no row, or the whole dataset.
InitGrid ==
  \/ GridMounted(<<>>, <<>>)
  \/ GridMounted(GridRows(MaxGridRows), <<"Year", "SpeciesName">>)

NextGrid ==
  \/ ColumnsEffect
  \/ RequestSort
  \/ ToggleColumn
  \/ ToggleAll
  \/ PreviousPage
  \/ NextPage
  \/ GotoPage
  \/ DataChange

SpecGrid == InitGrid /\ [][NextGrid]_vars

\* DataTable mounted on one row of a file with the header h
InitColumns ==
  \E h \in Headers :
    GridMounted(IF h = <<>> THEN <<>> ELSE <<HeaderRow(h)>>, h)

NextColumns ==
  \/ ColumnsEffect
  \/ ToggleAll

SpecColumns == InitColumns /\ [][NextColumns]_vars


(***************************************************************************)
(* The table: columns on display, pages, sorting.                          *)
(***************************************************************************)
\* C22: after any sequence of toggleColumnVisibility and toggleAllColumns
\* calls at least one column is visible (of a table that has columns).
C22_OneColumnVisible ==
  gridColumns # <<>> => visibleColumns # <<>>

\* C23: currentPage is at least 1 and at most max(1, totalPages) in every
\* reachable state, when the data prop has shrunk or become empty as well,
\* and a non-empty row set never renders an empty page.
C23_PaginationBounds ==
  /\ currentPage >= 1
  /\ currentPage <= Greatest(1, totalPages)
  /\ sortedData # <<>> => paginatedData # <<>>

\* a and b hold the same rows, each as often
IsPermutation(a, b) ==
  /\ Len(a) = Len(b)
  /\ \A x \in Range(b) :
       Cardinality({i \in 1..Len(a) : a[i] = x})
         = Cardinality({i \in 1..Len(b) : b[i] = x})

\* C29: requestSort(key) sets (key, descending) exactly when the sort state
\* is (key, ascending) and (key, ascending) otherwise; a sort state once
\* set never goes back to none; sortedData is a permutation of the data
\* prop at all times, and sorting leaves the data prop as it is.
C29_ColumnSort ==
  /\ [](IsPermutation(sortedData, gridData))
  /\ [][/\ ~sortConfig.isNull => ~sortConfig'.isNull
        /\ sortConfig' # sortConfig =>
             /\ gridData' = gridData
             /\ sortConfig'.val.key \in Range(visibleColumns)
             /\ sortConfig'.val.direction \in {"ascending", "descending"}
             /\ sortConfig'.val.direction = "descending" <=>
                  /\ ~sortConfig.isNull
                  /\ sortConfig.val.key = sortConfig'.val.key
                  /\ sortConfig.val.direction = "ascending"]_vars

\* Eleven rows sorted by SpeciesName, descending, are on display in another
\* order than the data prop has them, and the second page is shown.
C29_Witness ==
  /\ sortConfig = Just([key |-> "SpeciesName", direction |-> "descending"])
  /\ Len(gridData) = rowsPerPage + 1
  /\ sortedData # gridData
  /\ currentPage = 2

\* C30: the columns visible at first are the priority columns the dataset
\* has, in dataset order, topped up with its other columns only while there
\* are fewer than 6; never more than 6.
C30_InitialColumns ==
  LET priority == SelectSeq(gridColumns, LAMBDA col : col \in Range(priorityColumns))
      others == SelectSeq(gridColumns, LAMBDA col : col \notin Range(priorityColumns))
      room == Greatest(0, 6 - Len(priority))
  IN  ~columnsPending /\ visibleColumns = initialVisibleColumns =>
        /\ Len(visibleColumns) <= 6
        /\ visibleColumns = priority \o SubSeq(others, 1, Least(room, Len(others)))
=============================================================================
